---- MODULE Spec2Model ----
(***************************************************************************)
(* Model of the adaptive crawl / ingestion core of Project_Pearson:        *)
(*   backend/app.py                       fetch_case_doc, enumerate_and_embed *)
(*   backend/services/document_ingestion.py  ingest_upload, ingest_crawled_case *)
(*   backend/vectorstores/chroma_store_fixed.py  ChromaVectorStore          *)
(*   backend/db/models.py                 Document, Chunk                   *)
(*                                                                         *)
(* Delays are fixed-point numbers: one second is Scale units, so that the  *)
(* products by 1.5 and 0.9 are exact for the number of adjustments the     *)
(* bounds allow (each adjustment adds one decimal digit).                  *)
(***************************************************************************)
EXTENDS Integers, Sequences, FiniteSets, TLC

\* ---------------------------------------------------------------- bounds
\* Number of fetch_case_doc calls the fetch driver issues (SpecFetch).
MaxFetches == 6
\* Number of concurrent workers (CRAWL_WORKERS is read from the environment).
NumWorkers == 2

Workers == 1..NumWorkers
NoWorker == 0

\* ------------------------------------------------------------ arithmetic
Min(a, b) == IF a <= b THEN a ELSE b
Max(a, b) == IF a >= b THEN a ELSE b
\* floor(x * num / den) without leaving 32 bits
MulDiv(x, num, den) == (x \div den) * num + ((x % den) * num) \div den

\* One second, in delay units. Exact for up to 7 adjustments from 0.8.
Scale == 10^8

\* app.py:32-36, the defaults of the environment options, in tenths
SLEEP_BETWEEN_TENTHS == 8
MAX_SLEEP_SECONDS == 6
RATE_DECAY_TENTHS == 9
RATE_GROWTH_TENTHS == 15
EXTRA_ON_429_TENTHS == 2

SLEEP_BETWEEN == MulDiv(Scale, SLEEP_BETWEEN_TENTHS, 10)
MAX_SLEEP == MAX_SLEEP_SECONDS * Scale
EXTRA_ON_429 == MulDiv(Scale, EXTRA_ON_429_TENTHS, 10)

\* ---------------------------------------------------------------- crawl bounds
\* Candidate ids of one enumerate_and_embed run: start_id = 1, end_id = NumDocs.
NumDocs == 3
\* app.py:38 reads the threshold from the environment (default 30); the model
\* runs with a small one so that a run can reach it.
MAX_CONSECUTIVE_FAILS == 2

DocIds == 1..NumDocs
NoDoc == 0
\* Word counts extract_text can return for a fetched page.
WordCounts == {0, 39, 201}

\* --------------------------------------------------------------- ingest bounds
\* Number of ingest_upload / ingest_crawled_case calls (one after the other).
MaxIngests == 2

\* The raw contents that are uploaded or crawled, and the length of the text
\* the extraction returns for each.
Blobs == {"b0", "b1", "b2"}
TextLen(b) == CASE b = "b0" -> 0 [] b = "b1" -> 3500 [] OTHER -> 6000
\* file.filename of an upload; ingest_crawled_case builds case_<case_id>.txt
UploadNames == {"x.txt", "y.txt", "z.pdf"}
CrawlName == "case_7.txt"
\* file.content_type of an upload
ContentTypes == {"text/plain", "application/pdf", "application/octet-stream"}

VARIABLES
    raw_dir,          \* the files under RAW_DIR: path and content
    case_files,       \* the entries of case_files_store's collection
    db_documents,     \* committed rows of table documents
    db_chunks,        \* committed rows of table chunks
    tx_documents,     \* rows the open session has flushed and not committed
    ipc,              \* the position of the ingest call in progress
    call,             \* its locals
    ret,              \* what the last ingest call returned
    ingests,          \* ingest calls made
    returned,         \* content hash -> chunk count of the call that returned ok (history)
    ADAPTIVE_SLEEP,   \* app.py:40, the shared delay
    RATE_LOCK,        \* app.py:41, the worker holding it, or NoWorker
    pc,               \* each worker's position
    loaded,           \* the value of ADAPTIVE_SLEEP a worker loaded to update it
    html,             \* fetch_case_doc's return value, per worker
    fetches,          \* fetch_case_doc calls started by the driver
    serial,           \* the adjustments made so far, applied one at a time in the
                      \* order of their stores, starting from SLEEP_BETWEEN (history)
    queue,            \* ThreadPoolExecutor's work queue: submitted, not yet started
    future,           \* futures[doc_id]: state, and the tuple process returned
    cur,              \* the doc_id a worker is processing
    words,            \* word count of the text a worker extracted
    EMBED_LOCK,       \* app.py:52, the worker holding it, or NoWorker
    case_law,         \* the entries of case_law_store's collection
    now,              \* int(time.time()) as add_texts last read it, relative to the start
    mainpc,           \* the position of enumerate_and_embed's own thread
    snapshot,         \* as_completed: futures found finished when it starts
    doneq,            \* as_completed: futures finished later, in completion order
    consumed,         \* futures the loop has taken the result of
    total_docs, total_chunks, consecutive_failures,   \* app.py:107-109
    missRun,          \* length of the run of misses that ends the results observed so far (history)
    stopped,          \* the loop left through `break` (history)
    arg_text, arg_size, arg_overlap,   \* text, size, overlap: the arguments of the chunk_text calls under study
    called,           \* which of the chunk_text functions have been called with them
    tu_chunks,        \* what text_utils.chunk_text returned
    di_chunks,        \* what document_ingestion.chunk_text returned
    dists_list,       \* similarity_search: the distances collection.query returned
    out,              \* similarity_search: the scores of the hits it returned
    ranked,           \* hybrid_search: each collection's entries, nearest to the query first
    k_case_files, k_case_law, filters,   \* hybrid_search's arguments
    hybrid_ret,       \* what hybrid_search returned
    active_sessions,  \* SessionManager.active_sessions: session id -> session data
    sessions_dir,     \* the session files under sessions/, by session id
    documents_dir,    \* the files under session_documents/
    session_collections,   \* the entries of each session's vector collection
    sm_ret            \* what the last SessionManager call returned

rateVars == <<ADAPTIVE_SLEEP, RATE_LOCK, loaded, html, serial>>
workerVars == <<queue, future, cur, words, EMBED_LOCK, case_law, doneq>>
mainVars == <<mainpc, snapshot, consumed, total_docs, total_chunks, consecutive_failures, missRun, stopped>>
crawlVars == <<workerVars, mainVars>>
ingestVars == <<raw_dir, case_files, db_documents, db_chunks, tx_documents, ipc, call, ret, ingests, returned>>
chunkVars == <<arg_text, arg_size, arg_overlap, called, tu_chunks, di_chunks>>
searchVars == <<dists_list, out>>
hybridVars == <<ranked, k_case_files, k_case_law, filters, hybrid_ret>>
sessionVars == <<active_sessions, sessions_dir, documents_dir, session_collections, sm_ret>>
pureVars == <<chunkVars, searchVars, hybridVars, sessionVars>>
vars == <<rateVars, pc, fetches, crawlVars, now, ingestVars, pureVars>>

\* Python values as they occur in metadata and in filters: the type and the
\* text str() gives. Absent marks a key the dict does not have
PyInt(digits) == [type |-> "int", repr |-> digits]
PyStr(chars) == [type |-> "str", repr |-> chars]
PyNone == [type |-> "NoneType", repr |-> "None"]
Absent == [type |-> "absent", repr |-> ""]

MetaKeys == {"chunk_index", "source_type"}

\* retrieval.py:12 filters: None, or a dict
NoFilters == [given |-> FALSE, dict |-> [key \in MetaKeys |-> Absent]]
\* retrieval.py:23: the collections hybrid_search asks
Collections == {"case_files", "case_law"}

\* ------------------------------------------------------ session bounds
\* The clock readings of a SessionManager run, and the messages of a session
MaxClock == 2
MaxChat == 2

SessionIds == {"s1"}
\* Contents and names of the files added to a session
SessionBlobs == {"b1", "b2"}
SessionNames == {"x.txt", "y.txt"}
\* session_manager.py:239 names "user_prompt", "ai_response", "system";
\* add_chat_message treats "system" as it treats "user_prompt"
MessageTypes == {"user_prompt", "ai_response"}
\* An id active_sessions does not hold; a doc_id a session's documents do not hold
NoSession == [session_id |-> ""]
NoDocument == [doc_id |-> <<>>]
\* No SessionManager call has returned yet
NothingReturned == [op |-> "none", session_id |-> "", value |-> FALSE]

\* ----------------------------------------------- document_ingestion.py
\* document_ingestion.py:40
MAX_DOC_LENGTH == 50000
\* document_ingestion.py:90 and 141: chunk_text(text, chunk_size=3000, overlap=250)
INGEST_CHUNK_SIZE == 3000
INGEST_OVERLAP == 250

\* document_ingestion.py:47-48 _hash_bytes: the digest of the raw bytes
HashOf(b) == <<"sha256", b>>

NoCall == [kind |-> "none"]
NoReturn == [status |-> "none"]

\* ------------------------------------------------------- fetch_case_doc
\* Mutant: the growth without its clamp at MAX_SLEEP
GrowSleepUnclamped(x) == MulDiv(x, RATE_GROWTH_TENTHS, 10) + EXTRA_ON_429
\* Mutant: the success branch multiplies by the growth factor
DecaySleepGrows(x) == Max(SLEEP_BETWEEN, MulDiv(x, RATE_GROWTH_TENTHS, 10))
\* Mutant: the updates do not take RATE_LOCK
RateLockIgnored(w) == TRUE
\* Mutant: add_texts is called without EMBED_LOCK
EmbedLockIgnored(w) == TRUE

\* app.py:72 and 85: min(ADAPTIVE_SLEEP * RATE_GROWTH + EXTRA_ON_429, MAX_SLEEP)
GrowSleep(x) == Min(MulDiv(x, RATE_GROWTH_TENTHS, 10) + EXTRA_ON_429, MAX_SLEEP)
\* app.py:79: max(SLEEP_BETWEEN, ADAPTIVE_SLEEP * RATE_DECAY)
DecaySleep(x) == Max(SLEEP_BETWEEN, MulDiv(x, RATE_DECAY_TENTHS, 10))

\* The threads of a pool are interchangeable: of the idle ones, the one with
\* the lowest number takes the next call
FirstIdle(w) == \A v \in Workers : v < w => pc[v] # "idle"

\* threading.Lock.acquire: a worker enters `with RATE_LOCK` only when it is free
RateLockFree(w) == RATE_LOCK = NoWorker

\* Mutant: a miss is charged like a rate limit
SleepAfterMissGrows(x) == GrowSleep(x)
\* app.py:67-68 (404) and 81-88 (an exception without "429" in its text):
\* return "" with no assignment to ADAPTIVE_SLEEP
SleepAfterMiss(x) == x

\* What one request can end in: 2xx, 404, 429, an exception whose text holds
\* "429", any other exception (timeouts, raise_for_status on other codes).
FetchOutcomes == {"ok", "404", "429", "exc429", "exc"}

\* app.py:60-69, 76, 81-83: with RATE_LOCK: current_sleep = ADAPTIVE_SLEEP (the
\* local is read by nothing but the sleep, so it is not kept), the sleep,
\* requests.get, and the branch on its outcome
FetchRequest(w) ==
    /\ pc[w] = "f_begin"
    /\ RateLockFree(w)
    /\ \E o \in FetchOutcomes :
        /\ pc' = [pc EXCEPT ![w] =
                    CASE o = "ok" -> "f_decay"
                      [] o = "404" -> "f_ret"
                      [] o = "429" -> "f_grow"
                      [] o = "exc429" -> "f_grow"
                      [] OTHER -> "f_ret"]
        /\ html' = [html EXCEPT ![w] = IF o = "ok" THEN "page" ELSE ""]
        /\ ADAPTIVE_SLEEP' = IF o \in {"404", "exc"} THEN SleepAfterMiss(ADAPTIVE_SLEEP)
                             ELSE ADAPTIVE_SLEEP
    /\ UNCHANGED <<RATE_LOCK, loaded, serial>>
    /\ UNCHANGED <<fetches, crawlVars, now, ingestVars, pureVars>>

\* app.py:71-72 / 84-85 / 78-79: enter `with RATE_LOCK` and load ADAPTIVE_SLEEP
UpdateAcquire(w) ==
    /\ pc[w] \in {"f_grow", "f_decay"}
    /\ RateLockFree(w)
    /\ RATE_LOCK' = w
    /\ loaded' = [loaded EXCEPT ![w] = ADAPTIVE_SLEEP]
    /\ pc' = [pc EXCEPT ![w] = IF pc[w] = "f_grow" THEN "f_grow_w" ELSE "f_decay_w"]
    /\ UNCHANGED <<ADAPTIVE_SLEEP, html, serial>>
    /\ UNCHANGED <<fetches, crawlVars, now, ingestVars, pureVars>>

\* app.py:72-75 / 85-88: store the grown delay, leave the lock, return ""
GrowWrite(w) ==
    /\ pc[w] = "f_grow_w"
    /\ ADAPTIVE_SLEEP' = GrowSleep(loaded[w])
    /\ RATE_LOCK' = IF RATE_LOCK = w THEN NoWorker ELSE RATE_LOCK
    /\ serial' = GrowSleep(serial)
    /\ loaded' = [loaded EXCEPT ![w] = 0]
    /\ pc' = [pc EXCEPT ![w] = "f_ret"]
    /\ UNCHANGED html
    /\ UNCHANGED <<fetches, crawlVars, now, ingestVars, pureVars>>

\* app.py:78-80: store the decayed delay, leave the lock, return resp.text
DecayWrite(w) ==
    /\ pc[w] = "f_decay_w"
    /\ ADAPTIVE_SLEEP' = DecaySleep(loaded[w])
    /\ RATE_LOCK' = IF RATE_LOCK = w THEN NoWorker ELSE RATE_LOCK
    /\ serial' = DecaySleep(serial)
    /\ loaded' = [loaded EXCEPT ![w] = 0]
    /\ pc' = [pc EXCEPT ![w] = "f_ret"]
    /\ UNCHANGED html
    /\ UNCHANGED <<fetches, crawlVars, now, ingestVars, pureVars>>

\* ------------------------------------------------- the fetch driver
\* A caller of fetch_case_doc(doc_id) on worker w
FetchCall(w) ==
    /\ pc[w] = "idle"
    /\ FirstIdle(w)
    /\ fetches < MaxFetches
    /\ fetches' = fetches + 1
    /\ pc' = [pc EXCEPT ![w] = "f_begin"]
    /\ UNCHANGED <<rateVars, crawlVars, now, ingestVars, pureVars>>

FetchReturn(w) ==
    /\ pc[w] = "f_ret"
    /\ pc' = [pc EXCEPT ![w] = "idle"]
    /\ html' = [html EXCEPT ![w] = ""]
    /\ UNCHANGED <<ADAPTIVE_SLEEP, RATE_LOCK, loaded, serial>>
    /\ UNCHANGED <<fetches, crawlVars, now, ingestVars, pureVars>>

InitProgram ==
    /\ ADAPTIVE_SLEEP = SLEEP_BETWEEN
    /\ RATE_LOCK = NoWorker
    /\ pc = [w \in Workers |-> "idle"]
    /\ loaded = [w \in Workers |-> 0]
    /\ html = [w \in Workers |-> ""]
    /\ fetches = 0
    /\ serial = SLEEP_BETWEEN
    /\ queue = [i \in 1..NumDocs |-> i]
    /\ future = [d \in DocIds |-> [state |-> "pending", status |-> "", chunk_count |-> 0]]
    /\ cur = [w \in Workers |-> NoDoc]
    /\ words = [w \in Workers |-> 0]
    /\ EMBED_LOCK = NoWorker
    /\ case_law = {}
    /\ now = 0
    /\ mainpc = "start"
    /\ snapshot = {}
    /\ doneq = <<>>
    /\ consumed = {}
    /\ total_docs = 0
    /\ total_chunks = 0
    /\ consecutive_failures = 0
    /\ missRun = 0
    /\ stopped = FALSE
    /\ raw_dir = {}
    /\ case_files = {}
    /\ db_documents = {}
    /\ db_chunks = {}
    /\ tx_documents = {}
    /\ ipc = "idle"
    /\ call = NoCall
    /\ ret = NoReturn
    /\ ingests = 0
    /\ returned = [h \in {HashOf(b) : b \in Blobs} |-> 0]

\* No chunk_text call and no similarity_search under study
InitNoChunking ==
    /\ arg_text = <<>>
    /\ arg_size = 1
    /\ arg_overlap = 0
    /\ called = {}
    /\ tu_chunks = <<>>
    /\ di_chunks = <<>>

InitNoSearch ==
    /\ dists_list = <<>>
    /\ out = <<>>

\* No hybrid_search under study
InitNoHybrid ==
    /\ ranked = [c \in Collections |-> <<>>]
    /\ k_case_files = 3
    /\ k_case_law = 3
    /\ filters = NoFilters
    /\ hybrid_ret = NoReturn

\* session_manager.py:35-46 __init__ with no session file on disk
InitSessionManager ==
    /\ active_sessions = [s \in SessionIds |-> NoSession]
    /\ sessions_dir = {}
    /\ documents_dir = {}
    /\ session_collections = [name \in {<<"session", s, "docs">> : s \in SessionIds} |-> {}]
    /\ sm_ret = NothingReturned

Init == InitProgram /\ InitNoChunking /\ InitNoSearch /\ InitNoHybrid /\ InitSessionManager

NextFetch ==
    \E w \in Workers :
        \/ FetchCall(w)
        \/ FetchRequest(w)
        \/ UpdateAcquire(w)
        \/ GrowWrite(w)
        \/ DecayWrite(w)
        \/ FetchReturn(w)

SpecFetch == Init /\ [][NextFetch]_vars

\* ------------------------------------------------- enumerate_and_embed
\* app.py:31
CHUNK_SIZE == 200
\* app.py:120, the minimum word count of a page worth embedding
MIN_WORDS == 40

\* Mutant: only full slices are kept
AppChunkTextFullOnly(n, size) ==
    [k \in 1..(n \div size) |-> <<(k - 1) * size, k * size>>]
\* app.py:98-100 chunk_text on a text of n words: the word slices
\* words[i:i+size] for i in range(0, n, size), as <<from, to>> pairs
AppChunkText(n, size) ==
    [k \in 1..((n + size - 1) \div size) |->
        <<(k - 1) * size, Min(k * size, n)>>]

\* threading.Lock.acquire on EMBED_LOCK (app.py:134)
EmbedLockFree(w) == EMBED_LOCK = NoWorker

\* chroma_store_fixed.py:42: ts = int(time.time()). The clock does not run
\* backwards: a call reads the second the previous call read, or a later one
ClockReadings(last) == {last, last + 1}

\* chroma_store_fixed.py:43-45: ids = [f"doc_{ts}_{i}" for i in range(len(texts))]
GeneratedIds(ts, n) == [i \in 1..n |-> <<ts, i - 1>>]

\* The process tuple (doc_id, chunk_count, status) stored in the finished future
Finished(status, n) == [state |-> "done", status |-> status, chunk_count |-> n]
Raised == [state |-> "raised", status |-> "", chunk_count |-> 0]
\* A future whose result the loop has taken: the loop does not look at it again
Taken == [state |-> "taken", status |-> "", chunk_count |-> 0]

\* Future.set_result / set_exception: the future finishes, as_completed's
\* waiter is told when the loop is already waiting, the worker thread is free
Complete(w, result) ==
    /\ future' = [future EXCEPT ![cur[w]] = result]
    /\ doneq' = IF mainpc = "loop" THEN Append(doneq, cur[w]) ELSE doneq
    /\ cur' = [cur EXCEPT ![w] = NoDoc]
    /\ words' = [words EXCEPT ![w] = 0]
    /\ html' = [html EXCEPT ![w] = ""]
    /\ pc' = [pc EXCEPT ![w] = "idle"]

\* concurrent.futures.thread._worker: take the next work item, run process(doc_id);
\* app.py:116 calls fetch_case_doc
TakeTask(w) ==
    /\ pc[w] = "idle"
    /\ FirstIdle(w)
    /\ queue # <<>>
    /\ cur' = [cur EXCEPT ![w] = Head(queue)]
    /\ queue' = Tail(queue)
    /\ future' = [future EXCEPT ![Head(queue)].state = "running"]
    /\ pc' = [pc EXCEPT ![w] = "f_begin"]
    /\ UNCHANGED <<rateVars, fetches, words, EMBED_LOCK, case_law, doneq, mainVars, now, ingestVars, pureVars>>

\* app.py:117-118: if not html: return (doc_id, 0, "miss")
ProcessMiss(w) ==
    /\ pc[w] = "f_ret"
    /\ cur[w] # NoDoc
    /\ html[w] = ""
    /\ Complete(w, Finished("miss", 0))
    /\ UNCHANGED <<ADAPTIVE_SLEEP, RATE_LOCK, loaded, serial>>
    /\ UNCHANGED <<fetches, queue, EMBED_LOCK, case_law, mainVars, now, ingestVars, pureVars>>

\* app.py:119: extract_text raises (the parser fails): the exception leaves process
ProcessRaise(w) ==
    /\ pc[w] = "f_ret"
    /\ cur[w] # NoDoc
    /\ html[w] # ""
    /\ Complete(w, Raised)
    /\ UNCHANGED <<ADAPTIVE_SLEEP, RATE_LOCK, loaded, serial>>
    /\ UNCHANGED <<fetches, queue, EMBED_LOCK, case_law, mainVars, now, ingestVars, pureVars>>

\* Mutant: no text is too short to embed
NothingTooShort(n) == FALSE
\* app.py:120: if not text or len(text.split()) < 40, for a text of n words
TooShort(n) == n = 0 \/ n < MIN_WORDS

\* app.py:119-124: extract_text, the 40-word minimum, chunk_text
ProcessExtract(w) ==
    /\ pc[w] = "f_ret"
    /\ cur[w] # NoDoc
    /\ html[w] # ""
    /\ \E n \in WordCounts :
        IF TooShort(n)
        THEN /\ Complete(w, Finished("trivial", 0))
             /\ UNCHANGED <<ADAPTIVE_SLEEP, RATE_LOCK, loaded, serial>>
        ELSE IF Len(AppChunkText(n, CHUNK_SIZE)) = 0
        THEN /\ Complete(w, Finished("empty_chunks", 0))
             /\ UNCHANGED <<ADAPTIVE_SLEEP, RATE_LOCK, loaded, serial>>
        ELSE /\ words' = [words EXCEPT ![w] = n]
             /\ pc' = [pc EXCEPT ![w] = "e_lock"]
             /\ UNCHANGED <<rateVars, future, doneq, cur>>
    /\ UNCHANGED <<fetches, queue, EMBED_LOCK, case_law, mainVars, now, ingestVars, pureVars>>

\* app.py:134-135: with EMBED_LOCK: enter case_law_store.add_texts
EmbedAcquire(w) ==
    /\ pc[w] = "e_lock"
    /\ EmbedLockFree(w)
    /\ EMBED_LOCK' = w
    /\ pc' = [pc EXCEPT ![w] = "e_embed"]
    /\ UNCHANGED <<rateVars, fetches, queue, future, cur, words, case_law, doneq, mainVars, now, ingestVars, pureVars>>

\* chroma_store_fixed.py:39-48 and app.py:136: embed_documents, the ids of
\* this second, collection.add (entries whose id the collection already holds
\* are not added again), leave EMBED_LOCK, return (doc_id, len(chunks), "ingested")
AddTexts(w) ==
    /\ pc[w] = "e_embed"
    /\ \E ts \in ClockReadings(now) :
        LET chunks == AppChunkText(words[w], CHUNK_SIZE)
            ids == GeneratedIds(ts, Len(chunks))
            held == {e.id : e \in case_law}
        IN  /\ now' = ts
            /\ case_law' = case_law \cup
                {[id |-> ids[i], case_id |-> cur[w], chunk_index |-> i - 1] :
                     i \in {j \in 1..Len(chunks) : ids[j] \notin held}}
    /\ EMBED_LOCK' = IF EMBED_LOCK = w THEN NoWorker ELSE EMBED_LOCK
    /\ Complete(w, Finished("ingested", Len(AppChunkText(words[w], CHUNK_SIZE))))
    /\ UNCHANGED <<ADAPTIVE_SLEEP, RATE_LOCK, loaded, serial>>
    /\ UNCHANGED <<fetches, queue, mainVars, ingestVars, pureVars>>

\* The entries add_texts makes of a candidate's chunks when it reads second ts
BatchOf(doc_id, n, ts) ==
    LET chunks == AppChunkText(n, CHUNK_SIZE)
        ids == GeneratedIds(ts, Len(chunks))
    IN  {[id |-> ids[i], case_id |-> doc_id, chunk_index |-> i - 1] : i \in 1..Len(chunks)}

\* Mutant: the batch is in the collection when the failure is reported
BatchStoredDespiteFailure(collection, batch) == collection \cup batch
\* chroma_store_fixed.py:41-47: embed_documents(texts) is the first statement
\* after the empty check and collection.add the only write, so a call that
\* raises at l.41 leaves the collection as it found it
AfterFailedEmbedding(collection, batch) == collection

\* chroma_store_fixed.py:41 or 47 raising (the embedding provider or the
\* storage fails); app.py:137-139 returns (doc_id, 0, "embed_error")
AddTextsFail(w) ==
    /\ pc[w] = "e_embed"
    /\ case_law' = AfterFailedEmbedding(case_law, BatchOf(cur[w], words[w], now))
    /\ EMBED_LOCK' = IF EMBED_LOCK = w THEN NoWorker ELSE EMBED_LOCK
    /\ Complete(w, Finished("embed_error", 0))
    /\ UNCHANGED <<ADAPTIVE_SLEEP, RATE_LOCK, loaded, serial>>
    /\ UNCHANGED <<fetches, queue, mainVars, now, ingestVars, pureVars>>

\* app.py:144: as_completed(futures) starts: the futures already finished are
\* yielded first, in no particular order
AsCompletedStart ==
    /\ mainpc = "start"
    /\ snapshot' = {d \in DocIds : future[d].state \in {"done", "raised"}}
    /\ mainpc' = "loop"
    /\ UNCHANGED <<rateVars, pc, fetches, workerVars, now, ingestVars, pureVars>>
    /\ UNCHANGED <<consumed, total_docs, total_chunks, consecutive_failures, missRun, stopped>>

\* The future as_completed yields next
Yielded(d) ==
    IF snapshot # {} THEN d \in snapshot
    ELSE doneq # <<>> /\ d = Head(doneq)

\* app.py:151-161: the counters after a result with this status
CountFailures(status, n) ==
    IF status = "ingested" THEN n
    ELSE IF status = "miss" THEN n + 1
    ELSE 0

\* Mutant: fut.result() is called without a handler
LoopCatchesNothing(state) == FALSE
\* app.py:146-150: try: fut.result() / except Exception: log and continue.
\* TRUE when the handler catches what the result of a future in this state raises
LoopCatches(state) == state = "raised"

\* app.py:144-161: one iteration of the loop over as_completed(futures)
Consume(d) ==
    /\ mainpc = "loop"
    /\ Yielded(d)
    /\ snapshot' = snapshot \ {d}
    /\ doneq' = IF snapshot # {} THEN doneq ELSE Tail(doneq)
    /\ consumed' = consumed \cup {d}
    /\ IF future[d].state = "raised"
       THEN /\ UNCHANGED <<total_docs, total_chunks, consecutive_failures, missRun, stopped>>
            /\ mainpc' = IF ~ LoopCatches(future[d].state) THEN "raised"
                         ELSE IF consumed' = DocIds THEN "shutdown" ELSE "loop"
       ELSE LET status == future[d].status
                fails == CountFailures(status, consecutive_failures)
                break == status = "miss" /\ fails >= MAX_CONSECUTIVE_FAILS
            IN  /\ total_docs' = IF status = "ingested" THEN total_docs + 1 ELSE total_docs
                /\ total_chunks' = IF status = "ingested"
                                   THEN total_chunks + future[d].chunk_count
                                   ELSE total_chunks
                /\ consecutive_failures' = fails
                /\ missRun' = IF status = "miss" THEN missRun + 1 ELSE 0
                /\ stopped' = break
                /\ mainpc' = IF break \/ consumed' = DocIds THEN "shutdown" ELSE "loop"
    /\ UNCHANGED <<rateVars, pc, fetches, now, ingestVars, pureVars>>
    /\ future' = [future EXCEPT ![d] = Taken]
    /\ UNCHANGED <<queue, cur, words, EMBED_LOCK, case_law>>

\* app.py:142, 162-163: leaving the `with ThreadPoolExecutor` block is
\* executor.shutdown(wait=True): it returns when the queue has been worked off
\* and every worker thread has ended; then the totals are logged
Shutdown ==
    /\ mainpc = "shutdown"
    /\ queue = <<>>
    /\ \A w \in Workers : pc[w] = "idle"
    /\ mainpc' = "done"
    /\ UNCHANGED <<rateVars, pc, fetches, workerVars, now, ingestVars, pureVars>>
    /\ UNCHANGED <<snapshot, consumed, total_docs, total_chunks, consecutive_failures, missRun, stopped>>

NextCrawl ==
    \/ \E w \in Workers :
        \/ TakeTask(w)
        \/ FetchRequest(w)
        \/ UpdateAcquire(w)
        \/ GrowWrite(w)
        \/ DecayWrite(w)
        \/ ProcessMiss(w)
        \/ ProcessRaise(w)
        \/ ProcessExtract(w)
        \/ EmbedAcquire(w)
        \/ AddTexts(w)
        \/ AddTextsFail(w)
    \/ AsCompletedStart
    \/ \E d \in DocIds : Consume(d)
    \/ Shutdown

SpecCrawl == Init /\ [][NextCrawl]_vars

\* The crawl with the scheduling the runtime gives it: a thread that can take
\* a step is not held back forever, so the run goes on until nothing is left
\* to do (worker threads, as_completed and the executor's shutdown all block
\* only on each other)
SpecCrawlFair == SpecCrawl /\ WF_vars(NextCrawl)

\* ------------------------------------- ingest_upload, ingest_crawled_case
\* document_ingestion.py:12-25 chunk_text on a text of n characters: the
\* slices text[start:end], as <<start, end>> pairs (a slice ends at n at most)
RECURSIVE IngestChunkLoop(_, _, _, _)
IngestChunkLoop(n, start, chunk_size, overlap) ==
    IF start < n
    THEN << <<start, Min(start + chunk_size, n)>> >>
            \o IngestChunkLoop(n, start + chunk_size - overlap, chunk_size, overlap)
    ELSE <<>>

IngestChunkText(n, chunk_size, overlap) ==
    IF n <= chunk_size THEN << <<0, n>> >>
    ELSE IngestChunkLoop(n, 0, chunk_size, overlap)

\* document_ingestion.py:71: filename.lower().endswith(".pdf")
EndsWithPdf(filename) == filename \in {"z.pdf"}

\* Mutant: whatever is not a PDF is decoded as text
SourceTypeDecodesAnything(filename, content_type) ==
    IF content_type = "application/pdf" \/ EndsWithPdf(filename) THEN "upload_pdf"
    ELSE "upload_text"

\* document_ingestion.py:71-81: the branch on content type and extension
\* (no docx name or content type is among the inputs)
SourceType(filename, content_type) ==
    IF content_type = "application/pdf" \/ EndsWithPdf(filename) THEN "upload_pdf"
    ELSE IF content_type = "text/plain" THEN "upload_text"
    ELSE "ignored"

\* Mutant: chunk rows are numbered from one
ChunkIndexFromOne(i) == i
\* document_ingestion.py:116-117: enumerate(zip(chunks, ids)); i is the
\* position in the (1-based) sequence of the model
ChunkIndex(i) == i - 1

\* Mutant: the document row is committed where it should only be flushed
CommittedAtFlush(committed, row) == committed \cup {row}
\* document_ingestion.py:113-114 db.add(doc); db.flush(): the INSERT is sent
\* inside the open transaction, the committed table is as before
AfterFlush(committed, row) == committed

\* document_ingestion.py:83 and 134: os.path.join(RAW_DIR, f"{file_hash}_{filename}")
RawPath(file_hash, filename) == <<file_hash, filename>>

\* document_ingestion.py:84-86 / 135-137: write the raw bytes if no file is there
WriteIfAbsent(dir, path, data) ==
    IF \E f \in dir : f.path = path THEN dir
    ELSE dir \cup {[path |-> path, data |-> data]}

\* The raw contents a digest stands for, and the number of chunks the
\* ingestion of those contents produces (document_ingestion.py:82, 90)
BlobOf(file_hash) == file_hash[2]
ChunkCountOf(file_hash) ==
    Len(IngestChunkText(Min(TextLen(BlobOf(file_hash)), MAX_DOC_LENGTH),
                        INGEST_CHUNK_SIZE, INGEST_OVERLAP))

\* documents.id, autoincrement (no row is ever deleted here)
NextDocumentId == Cardinality(db_documents) + 1

\* The locals of a call that goes on to chunk, embed and persist
\* document_ingestion.py:68-90 / 130-141
Locals(kind, b, filename, content_type, source) ==
    [kind |-> kind, blob |-> b, filename |-> filename, hash |-> HashOf(b),
     content_type |-> content_type, source |-> source,
     chunks |-> IngestChunkText(Min(TextLen(b), MAX_DOC_LENGTH),
                                INGEST_CHUNK_SIZE, INGEST_OVERLAP),
     ids |-> <<>>,
     \* for the properties only: the committed tables when the call began,
     \* and the ids collection.add has stored for this call
     before |-> <<db_documents, db_chunks>>,
     written |-> {}]

crawlAndFetch == <<rateVars, pc, fetches, crawlVars, pureVars>>

\* document_ingestion.py:65-81: an upload whose type is not supported
IngestUploadIgnored ==
    /\ ipc = "idle"
    /\ ingests < MaxIngests
    /\ \E b \in Blobs, filename \in UploadNames, content_type \in ContentTypes :
        /\ SourceType(filename, content_type) = "ignored"
        /\ ret' = [status |-> "ignored", reason |-> content_type, blob |-> b]
    /\ ingests' = ingests + 1
    /\ UNCHANGED <<raw_dir, case_files, db_documents, db_chunks, tx_documents, ipc, call, returned>>
    /\ UNCHANGED <<crawlAndFetch, now>>

\* document_ingestion.py:72 / 51-54: PdfReader raises on the bytes; nothing
\* in ingest_upload catches it
IngestUploadExtractFail ==
    /\ ipc = "idle"
    /\ ingests < MaxIngests
    /\ \E b \in Blobs, filename \in UploadNames, content_type \in ContentTypes :
        /\ SourceType(filename, content_type) = "upload_pdf"
        /\ ret' = [status |-> "raised", blob |-> b]
    /\ ingests' = ingests + 1
    /\ UNCHANGED <<raw_dir, case_files, db_documents, db_chunks, tx_documents, ipc, call, returned>>
    /\ UNCHANGED <<crawlAndFetch, now>>

\* document_ingestion.py:65-99: hash, extract, truncate, store the raw copy, chunk
IngestUploadBegin ==
    /\ ipc = "idle"
    /\ ingests < MaxIngests
    /\ \E b \in Blobs, filename \in UploadNames, content_type \in ContentTypes :
        /\ SourceType(filename, content_type) # "ignored"
        /\ raw_dir' = WriteIfAbsent(raw_dir, RawPath(HashOf(b), filename), b)
        /\ call' = Locals("upload", b, filename, content_type,
                               SourceType(filename, content_type))
    /\ ingests' = ingests + 1
    /\ ipc' = "i_add"
    /\ ret' = NoReturn
    /\ UNCHANGED <<case_files, db_documents, db_chunks, tx_documents, returned>>
    /\ UNCHANGED <<crawlAndFetch, now>>

\* document_ingestion.py:129-150: the same for an already extracted text
IngestCrawledBegin ==
    /\ ipc = "idle"
    /\ ingests < MaxIngests
    /\ \E b \in Blobs :
        /\ raw_dir' = WriteIfAbsent(raw_dir, RawPath(HashOf(b), CrawlName), b)
        /\ call' = Locals("crawl", b, CrawlName, "text/plain", "crawl")
    /\ ingests' = ingests + 1
    /\ ipc' = "i_add"
    /\ ret' = NoReturn
    /\ UNCHANGED <<case_files, db_documents, db_chunks, tx_documents, returned>>
    /\ UNCHANGED <<crawlAndFetch, now>>

\* document_ingestion.py:100 / 151 and chroma_store_fixed.py:38-48:
\* case_files_store.add_texts(chunks, metadatas): the ids of this second,
\* collection.add (an id the collection already holds is not added again)
IngestAddTexts ==
    /\ ipc = "i_add"
    /\ \E ts \in ClockReadings(now) :
        LET n == Len(call.chunks)
            ids == IF n = 0 THEN <<>> ELSE GeneratedIds(ts, n)
            held == {e.id : e \in case_files}
        IN  /\ now' = ts
            /\ case_files' = case_files \cup
                {[id |-> ids[i], hash |-> call.hash, chunk_index |-> i - 1] :
                     i \in {j \in 1..n : ids[j] \notin held}}
            /\ call' = [call EXCEPT !.ids = ids,
                                     !.written = {ids[j] : j \in {k \in 1..n : ids[k] \notin held}}]
    /\ ipc' = "i_tx"
    /\ UNCHANGED <<raw_dir, db_documents, db_chunks, tx_documents, ret, ingests, returned>>
    /\ UNCHANGED crawlAndFetch

\* chroma_store_fixed.py:41 or 47 raising: nothing in the ingest call catches it
IngestAddTextsFail ==
    /\ ipc = "i_add"
    /\ ret' = [status |-> "raised", blob |-> call.blob]
    /\ call' = NoCall
    /\ ipc' = "idle"
    /\ UNCHANGED <<raw_dir, case_files, db_documents, db_chunks, tx_documents, ingests, returned>>
    /\ UNCHANGED <<crawlAndFetch, now>>

\* document_ingestion.py:121-125 / 172-176: db.rollback(), db.close(),
\* return {"status": "error", "error": str(e)}
ReturnError(text) ==
    /\ tx_documents' = {}
    /\ ret' = [status |-> "error", error |-> text, blob |-> call.blob]
    /\ call' = NoCall
    /\ ipc' = "idle"

\* document_ingestion.py:101-114 / 152-165: SessionLocal(), db.add(doc),
\* db.flush(); documents.hash is unique (models.py:15)
IngestFlush ==
    /\ ipc = "i_tx"
    /\ IF \E d \in db_documents : d.hash = call.hash
       THEN /\ ReturnError("UNIQUE constraint failed: documents.hash")
            /\ UNCHANGED db_documents
       ELSE LET row == [id |-> NextDocumentId, hash |-> call.hash,
                        filename |-> call.filename, source |-> call.source]
            IN  /\ tx_documents' = {row}
                /\ db_documents' = AfterFlush(db_documents, row)
                /\ ipc' = "i_flushed"
                /\ UNCHANGED <<call, ret>>
    /\ UNCHANGED <<raw_dir, case_files, db_chunks, ingests, returned>>
    /\ UNCHANGED <<crawlAndFetch, now>>

\* The INSERT of the document fails for another reason (database locked, disk)
IngestFlushFail ==
    /\ ipc = "i_tx"
    /\ ReturnError("flush failed")
    /\ UNCHANGED <<raw_dir, case_files, db_documents, db_chunks, ingests, returned>>
    /\ UNCHANGED <<crawlAndFetch, now>>

\* The chunk rows of the call (document_ingestion.py:115-118 / 166-169)
ChunkRows(doc_id) ==
    {[document_id |-> doc_id, chunk_index |-> ChunkIndex(i), slice |-> call.chunks[i],
      vector_id |-> call.ids[i]] : i \in 1..Min(Len(call.chunks), Len(call.ids))}

\* document_ingestion.py:119-126 / 170-177: db.add_all(chunk_rows), db.commit()
\* (uq_doc_chunk, models.py:35, is checked when the rows are inserted), return ok
IngestCommit ==
    /\ ipc = "i_flushed"
    /\ LET doc == CHOOSE d \in tx_documents : TRUE
           rows == ChunkRows(doc.id)
       IN  IF Cardinality({r.chunk_index : r \in rows}) # Cardinality(rows)
           THEN /\ ReturnError("UNIQUE constraint failed: chunks.document_id, chunks.chunk_index")
                /\ UNCHANGED <<db_documents, db_chunks, returned>>
           ELSE /\ db_documents' = db_documents \cup tx_documents
                /\ db_chunks' = db_chunks \cup rows
                /\ tx_documents' = {}
                /\ ret' = [status |-> "ok", chunks |-> Len(call.chunks),
                           vector_ids |-> call.ids, hash |-> call.hash, blob |-> call.blob]
                /\ returned' = [returned EXCEPT ![call.hash] = Len(call.chunks)]
                /\ call' = NoCall
                /\ ipc' = "idle"
    /\ UNCHANGED <<raw_dir, case_files, ingests>>
    /\ UNCHANGED <<crawlAndFetch, now>>

\* The INSERT of the chunk rows or the COMMIT fails: rollback, status error
IngestCommitFail ==
    /\ ipc = "i_flushed"
    /\ ReturnError("commit failed")
    /\ UNCHANGED <<raw_dir, case_files, db_documents, db_chunks, ingests, returned>>
    /\ UNCHANGED <<crawlAndFetch, now>>

NextIngest ==
    \/ IngestUploadIgnored
    \/ IngestUploadExtractFail
    \/ IngestUploadBegin
    \/ IngestCrawledBegin
    \/ IngestAddTexts
    \/ IngestAddTextsFail
    \/ IngestFlush
    \/ IngestFlushFail
    \/ IngestCommit
    \/ IngestCommitFail

SpecIngest == Init /\ [][NextIngest]_vars

\* ---------------- text_utils.chunk_text and document_ingestion.chunk_text
\* The longest text and the largest chunk size tried
MaxTextLen == 12
MaxChunkSize == 5

Letters ==
    <<"a", "b", "c", "d", "e", "f", "g", "h", "i", "j", "k", "l", "m",
      "n", "o", "p", "q", "r", "s", "t", "u", "v", "w", "x", "y", "z">>
\* The text of n characters "abcdefghij..."[:n]
TextOfLen(n) == SubSeq(Letters, 1, n)

\* Mutant: the slice takes one character more
SliceOneMore(t, start, end) == SubSeq(t, start + 1, Min(end + 1, Len(t)))
\* Python's text[start:end] for 0 <= start (text_utils.py:11,
\* document_ingestion.py:21): the characters at start .. end-1 that exist
Slice(t, start, end) == SubSeq(t, start + 1, Min(end, Len(t)))

\* Mutant: the next chunk starts where this one ended
NextStartNoOverlap(start, size, overlap) == start + size
\* text_utils.py:14: start += size - overlap
NextStart(start, size, overlap) == start + size - overlap

\* text_utils.py:9-14, the loop on a text of n characters: the <<start, end>>
\* of the slices appended, until a slice ends at n
RECURSIVE TextUtilsChunkLoop(_, _, _, _)
TextUtilsChunkLoop(n, start, size, overlap) ==
    IF start < n
    THEN LET end == Min(start + size, n)
         IN  << <<start, end>> >> \o
             (IF end = n THEN <<>>
              ELSE TextUtilsChunkLoop(n, NextStart(start, size, overlap), size, overlap))
    ELSE <<>>

\* text_utils.py:3-15
TextUtilsChunkText(n, size, overlap) ==
    IF n = 0 THEN <<>> ELSE TextUtilsChunkLoop(n, 0, size, overlap)

\* The chunks as strings: the slices of the text at the given <<start, end>>
Slices(t, pairs) == [k \in 1..Len(pairs) |-> Slice(t, pairs[k][1], pairs[k][2])]

\* chunk_text(text, size, overlap) of text_utils.py is called
ChunkTextUtils ==
    /\ tu_chunks' = Slices(arg_text,
                           TextUtilsChunkText(Len(arg_text), arg_size, arg_overlap))
    /\ called' = called \cup {"text_utils"}
    /\ UNCHANGED <<arg_text, arg_size, arg_overlap, di_chunks, searchVars, hybridVars, sessionVars>>
    /\ UNCHANGED <<rateVars, pc, fetches, crawlVars, now, ingestVars>>

\* chunk_text(text, chunk_size, overlap) of document_ingestion.py is called
ChunkTextIngestion ==
    /\ di_chunks' = Slices(arg_text,
                           IngestChunkText(Len(arg_text), arg_size, arg_overlap))
    /\ called' = called \cup {"document_ingestion"}
    /\ UNCHANGED <<arg_text, arg_size, arg_overlap, tu_chunks, searchVars, hybridVars, sessionVars>>
    /\ UNCHANGED <<rateVars, pc, fetches, crawlVars, now, ingestVars>>

\* Any text up to MaxTextLen characters with any size > overlap >= 0
InitChunk ==
    /\ InitProgram
    /\ InitSessionManager
    /\ InitNoSearch
    /\ InitNoHybrid
    /\ \E n \in 0..MaxTextLen, sz \in 1..MaxChunkSize, ov \in 0..MaxChunkSize :
        /\ sz > ov
        /\ arg_text = TextOfLen(n)
        /\ arg_size = sz
        /\ arg_overlap = ov
    /\ called = {}
    /\ tu_chunks = <<>>
    /\ di_chunks = <<>>

NextChunk ==
    \/ ChunkTextUtils
    \/ ChunkTextIngestion

SpecChunk == InitChunk /\ [][NextChunk]_vars

\* ------------------------------------ ChromaVectorStore.similarity_search
\* chroma_store_fixed.py:59 computes in binary floating point. The model keeps
\* the arithmetic and shortens the format: a float is m * 2^s with a
\* significand m of at most Precision bits, written as a whole number of
\* units of 2^-FracBits; every operation rounds its exact result to the
\* nearest float, ties to the even significand.
Precision == 3
FracBits == 6
\* The largest distance tried (in ones), and the hits of one query
MaxDistance == 4
NumHits == 2
MaxExp == FracBits + 1

One == 2^FracBits
Floats == {m * 2^s : m \in 0..(2^Precision - 1), s \in 0..MaxExp}
\* dist is None (chroma_store_fixed.py:59)
None == -1

\* The exponent of the float format at num/den units: the least s with
\* num/den < 2^Precision * 2^s
ExponentOf(num, den) ==
    CHOOSE s \in 0..MaxExp :
        /\ num < 2^(Precision + s) * den
        /\ s = 0 \/ num >= 2^(Precision + s - 1) * den

\* The float nearest to num/den units, ties to even
RoundToFloat(num, den) ==
    LET s == ExponentOf(num, den)
        ulp == den * 2^s
        m == num \div ulp
        r == num % ulp
    IN  IF 2 * r < ulp THEN m * 2^s
        ELSE IF 2 * r > ulp THEN (m + 1) * 2^s
        ELSE IF m % 2 = 0 THEN m * 2^s ELSE (m + 1) * 2^s

FloatAdd(a, b) == RoundToFloat(a + b, 1)
FloatDiv(a, b) == RoundToFloat(a * One, b)

\* Mutant: the score grows with the distance
ScoreNotInverted(dist) == IF dist # None THEN FloatAdd(One, dist) ELSE None
\* chroma_store_fixed.py:59: score = 1.0 / (1.0 + dist) if dist is not None else None
Score(dist) == IF dist # None THEN FloatDiv(One, FloatAdd(One, dist)) ELSE None

\* The distances a query can return: the floats of 0 .. MaxDistance, or None
Distances == {f \in Floats : f <= MaxDistance * One} \cup {None}

\* chroma_store_fixed.py:50-62: the hits of one query, each with its score
SimilaritySearch ==
    /\ dists_list # <<>>
    /\ out' = [i \in 1..Len(dists_list) |->
                  [distance |-> dists_list[i], score |-> Score(dists_list[i])]]
    /\ UNCHANGED <<dists_list, chunkVars, hybridVars, sessionVars>>
    /\ UNCHANGED <<rateVars, pc, fetches, crawlVars, now, ingestVars>>

InitSearch ==
    /\ InitProgram
    /\ InitSessionManager
    /\ InitNoChunking
    /\ InitNoHybrid
    /\ dists_list \in [1..NumHits -> Distances]
    /\ out = <<>>

NextSearch == SimilaritySearch

SpecSearch == InitSearch /\ [][NextSearch]_vars

\* ------------------------------------------------------ hybrid_search
\* Collections hold up to MaxStored entries; k_case_files, k_case_law <= MaxK
MaxStored == 2
MaxK == 2

\* retrieval.py:18 str(x)
Str(x) == x.repr

\* The keys of a dict
Keys(dict) == {key \in MetaKeys : dict[key] # Absent}
\* retrieval.py:18 meta.get(k): the value, None when the key is absent
Get(dict, key) == IF dict[key] = Absent THEN PyNone ELSE dict[key]

\* Metadata of stored chunks (document_ingestion.py:96 stores chunk_index
\* as an int; other writers store what they are given)
Metadatas ==
    { [chunk_index |-> PyInt("0"), source_type |-> PyStr("pdf")],
      [chunk_index |-> PyStr("0"), source_type |-> PyStr("pdf")],
      [chunk_index |-> PyInt("1"), source_type |-> PyStr("pdf")],
      [chunk_index |-> Absent, source_type |-> PyStr("text")] }

\* retrieval.py:12 filters: None or one of these dicts
Filters ==
    {NoFilters} \cup
    { [given |-> TRUE, dict |-> d] : d \in
        { [chunk_index |-> Absent, source_type |-> Absent],
          [chunk_index |-> PyInt("0"), source_type |-> Absent],
          [chunk_index |-> PyStr("0"), source_type |-> PyStr("pdf")],
          [chunk_index |-> PyStr("None"), source_type |-> Absent],
          [chunk_index |-> Absent, source_type |-> PyStr("text")] } }

\* chroma_store_fixed.py:50-62 similarity_search(query, k) on a collection:
\* collection.query(n_results=k) gives the k nearest entries, nearest first
SimilarityTopK(collection, k) ==
    [i \in 1..Min(k, Len(ranked[collection])) |->
        [collection |-> collection, rank |-> i, metadata |-> ranked[collection][i]]]

\* retrieval.py:15 `if filters:` is false for None and for the empty dict
Truthy(f) == f.given /\ Keys(f.dict) # {}

\* Mutant: a hit passes when some filter matches
MatchAny(meta, f) ==
    \E key \in Keys(f.dict) : Str(Get(meta, key)) = Str(f.dict[key])
\* retrieval.py:16-20 _match(meta)
Match(meta, f) ==
    \A key \in Keys(f.dict) : Str(Get(meta, key)) = Str(f.dict[key])

\* retrieval.py:21-22: [h for h in hits if _match(h["metadata"])]
Filtered(hits, f) ==
    LET keep(h) == Match(h.metadata, f) IN SelectSeq(hits, keep)

\* retrieval.py:12-23 hybrid_search(query, k_case_files, k_case_law, filters)
HybridSearch ==
    /\ hybrid_ret = NoReturn
    /\ LET case_files_hits == SimilarityTopK("case_files", k_case_files)
           case_law_hits == SimilarityTopK("case_law", k_case_law)
       IN  hybrid_ret' =
             IF Truthy(filters)
             THEN [case_files |-> Filtered(case_files_hits, filters),
                   case_law |-> Filtered(case_law_hits, filters)]
             ELSE [case_files |-> case_files_hits, case_law |-> case_law_hits]
    /\ UNCHANGED <<ranked, k_case_files, k_case_law, filters>>
    /\ UNCHANGED <<rateVars, pc, fetches, crawlVars, now, ingestVars, chunkVars, searchVars, sessionVars>>

\* Any two collections of up to MaxStored entries, any k, any of the filters
InitHybrid ==
    /\ InitProgram
    /\ InitSessionManager
    /\ InitNoChunking
    /\ InitNoSearch
    /\ ranked \in [Collections -> UNION {[1..n -> Metadatas] : n \in 0..MaxStored}]
    /\ k_case_files \in 1..MaxK
    /\ k_case_law \in 1..MaxK
    /\ filters \in Filters
    /\ hybrid_ret = NoReturn

NextHybrid == HybridSearch

SpecHybrid == InitHybrid /\ [][NextHybrid]_vars

\* ------------------------------------------------------ SessionManager
\* session_manager.py:101-102: doc_id = f"doc_{session_id}_{md5(content)[:12]}"
SessionDocId(s, b) == <<s, b>>
\* session_manager.py:105: documents_dir / f"{doc_id}_{filename}"
SessionDocPath(doc_id, filename) == <<doc_id, filename>>
\* session_manager.py:125: f"session_{session_id}_docs"
CollectionName(s) == <<"session", s, "docs">>
\* session_manager.py:284-297 _chunk_text on the extracted text: the number of chunks
SessionChunkCount(b) == IF b = "b1" THEN 1 ELSE 2

\* session_manager.py:65-75: the new session's data (user_info is not passed
\* by any caller here and stays {}); one reading of the clock serves
\* created_at and last_accessed
FreshSession(s, t) ==
    [session_id |-> s, created_at |-> t, last_accessed |-> t,
     documents |-> [b \in SessionBlobs |-> NoDocument],
     chat_history |-> <<>>, vector_collections |-> <<>>,
     total_analyses |-> 0, status |-> "active"]

\* Mutant: create_session builds new data whether or not the id is known
AlwaysFresh(existing, fresh) == fresh
\* session_manager.py:62-77: the data create_session leaves under the id and returns
CreatedOrExisting(existing, fresh) == IF existing # NoSession THEN existing ELSE fresh

\* session_manager.py:84-88: get_session on a known id stamps last_accessed
Touched(session, t) == [session EXCEPT !.last_accessed = t]

\* session_manager.py:96-98 / 233-235: session = get_session(id); if not
\* session: session = create_session(id)
GetOrCreate(s, t) ==
    IF active_sessions[s] # NoSession THEN Touched(active_sessions[s], t)
    ELSE CreatedOrExisting(active_sessions[s], FreshSession(s, t))

\* Mutant: every message counts as an analysis
AnalysesOfAnyMessage(message_type) == 1
\* session_manager.py:246: 1 if message_type == "ai_response" else 0
AnalysesOf(message_type) == IF message_type = "ai_response" THEN 1 ELSE 0

\* The clock does not run backwards, and the model stops it at MaxClock
SessionClock == {t \in ClockReadings(now) : t <= MaxClock}

sessionFrame == <<rateVars, pc, fetches, crawlVars, ingestVars, chunkVars, searchVars, hybridVars>>

\* session_manager.py:60-80 create_session(session_id); _save_session writes
\* the session file (299-307)
CreateSession(s) ==
    /\ \E t \in SessionClock :
        LET session == CreatedOrExisting(active_sessions[s], FreshSession(s, t))
        IN  /\ active_sessions' = [active_sessions EXCEPT ![s] = session]
            /\ now' = IF active_sessions[s] # NoSession THEN now ELSE t
            /\ sm_ret' = [op |-> "create_session", session_id |-> s, value |-> session]
    /\ sessions_dir' = IF active_sessions[s] # NoSession THEN sessions_dir
                       ELSE sessions_dir \cup {s}
    /\ UNCHANGED <<documents_dir, session_collections>>
    /\ UNCHANGED sessionFrame

\* session_manager.py:82-89 get_session(session_id)
GetSession(s) ==
    /\ IF active_sessions[s] # NoSession
       THEN \E t \in SessionClock :
            /\ active_sessions' = [active_sessions EXCEPT ![s] = Touched(@, t)]
            /\ now' = t
            /\ sessions_dir' = sessions_dir \cup {s}
            /\ sm_ret' = [op |-> "get_session", session_id |-> s,
                          value |-> Touched(active_sessions[s], t)]
       ELSE /\ sm_ret' = [op |-> "get_session", session_id |-> s, value |-> PyNone]
            /\ UNCHANGED <<active_sessions, now, sessions_dir>>
    /\ UNCHANGED <<documents_dir, session_collections>>
    /\ UNCHANGED sessionFrame

\* session_manager.py:91-185 add_document_to_session: the file is written,
\* the metadata entered, the collection named in the session; then either the
\* chunks go to the session's collection (vector_status "stored") or the
\* store is unavailable or fails and the chunks stay in the metadata
\* ("stored_local")
AddDocumentToSession(s, b, filename, stored) ==
    /\ \E t \in SessionClock :
        LET session == GetOrCreate(s, t)
            doc_id == SessionDocId(s, b)
            doc_metadata == [doc_id |-> doc_id, filename |-> filename,
                             file_path |-> SessionDocPath(doc_id, filename),
                             vector_status |-> IF stored THEN "stored" ELSE "stored_local",
                             chunks_count |-> SessionChunkCount(b)]
            collection_name == CollectionName(s)
        IN  /\ active_sessions' = [active_sessions EXCEPT ![s] =
                  [session EXCEPT
                     !.documents = [@ EXCEPT ![b] = doc_metadata],
                     !.vector_collections =
                         IF \E i \in 1..Len(@) : @[i] = collection_name THEN @
                         ELSE Append(@, collection_name)]]
            /\ now' = t
            /\ sm_ret' = [op |-> "add_document_to_session", session_id |-> s,
                          value |-> doc_metadata]
            /\ session_collections' =
                  IF stored
                  THEN [session_collections EXCEPT ![collection_name] =
                          @ \cup {[doc_id |-> doc_id, chunk_index |-> i] :
                                     i \in 0..(SessionChunkCount(b) - 1)}]
                  ELSE session_collections
            /\ documents_dir' = documents_dir \cup {SessionDocPath(doc_id, filename)}
    /\ sessions_dir' = sessions_dir \cup {s}
    /\ UNCHANGED sessionFrame

\* session_manager.py:230-248 add_chat_message(session_id, message_type, content)
AddChatMessage(s, message_type) ==
    /\ active_sessions[s] # NoSession => Len(active_sessions[s].chat_history) < MaxChat
    /\ \E t \in SessionClock :
        LET session == GetOrCreate(s, t)
        IN  /\ active_sessions' = [active_sessions EXCEPT ![s] =
                  [session EXCEPT
                     !.chat_history = Append(@, message_type),
                     !.total_analyses = @ + AnalysesOf(message_type)]]
            /\ now' = t
    /\ sessions_dir' = sessions_dir \cup {s}
    /\ sm_ret' = [op |-> "add_chat_message", session_id |-> s, value |-> PyNone]
    /\ UNCHANGED <<documents_dir, session_collections>>
    /\ UNCHANGED sessionFrame

\* session_manager.py:387-419 delete_session(session_id): the files named by
\* the documents' file_path are unlinked, each collection of the session is
\* opened and left as it is (401-407), the id is taken out of
\* active_sessions, the session file is unlinked, True is returned
DeleteSession(s) ==
    /\ documents_dir' =
          IF active_sessions[s] = NoSession THEN documents_dir
          ELSE documents_dir \
                 {active_sessions[s].documents[b].file_path :
                      b \in {c \in SessionBlobs : active_sessions[s].documents[c] # NoDocument}}
    /\ active_sessions' = [active_sessions EXCEPT ![s] = NoSession]
    /\ sessions_dir' = sessions_dir \ {s}
    /\ sm_ret' = [op |-> "delete_session", session_id |-> s, value |-> TRUE]
    /\ UNCHANGED <<now, session_collections>>
    /\ UNCHANGED sessionFrame

\* session_manager.py:417-419: an unlink raises (the first one, here): the
\* handler logs and returns False
DeleteSessionFail(s) ==
    /\ active_sessions[s] # NoSession
    /\ sm_ret' = [op |-> "delete_session", session_id |-> s, value |-> FALSE]
    /\ UNCHANGED <<active_sessions, sessions_dir, documents_dir, session_collections, now>>
    /\ UNCHANGED sessionFrame

NextSession ==
    \E s \in SessionIds :
        \/ CreateSession(s)
        \/ GetSession(s)
        \/ \E b \in SessionBlobs, filename \in SessionNames, stored \in BOOLEAN :
              AddDocumentToSession(s, b, filename, stored)
        \/ \E message_type \in MessageTypes : AddChatMessage(s, message_type)
        \/ DeleteSession(s)
        \/ DeleteSessionFail(s)

SpecSession == Init /\ [][NextSession]_vars

\* ================================================================ claims

\* C1: after any sequence of fetch outcomes issued by concurrent workers, the
\* shared delay stays within [SLEEP_BETWEEN, MAX_SLEEP].
C1_DelayWithinBounds ==
    /\ SLEEP_BETWEEN <= ADAPTIVE_SLEEP
    /\ ADAPTIVE_SLEEP <= MAX_SLEEP

\* The growth has been clamped: the delay sits at the ceiling, which five
\* rate-limit outcomes in a row reach from the floor.
C1_Witness ==
    /\ ADAPTIVE_SLEEP = MAX_SLEEP
    /\ \E w \in Workers : pc[w] = "f_ret" /\ html[w] = ""

\* C2: the store of a successful fetch never leaves the delay larger than it
\* was, and the store of a rate-limited fetch never leaves it smaller.
C2_SuccessShrinksLimitGrows ==
    [][\A w \in Workers :
        /\ (pc[w] = "f_decay_w" /\ pc'[w] = "f_ret") => ADAPTIVE_SLEEP' <= ADAPTIVE_SLEEP
        /\ (pc[w] = "f_grow_w" /\ pc'[w] = "f_ret") => ADAPTIVE_SLEEP' >= ADAPTIVE_SLEEP]_vars

\* A success has just decayed a delay that a rate limit had grown (1.4 to 1.26).
C2_Witness ==
    /\ ADAPTIVE_SLEEP = DecaySleep(GrowSleep(SLEEP_BETWEEN))
    /\ ADAPTIVE_SLEEP < GrowSleep(SLEEP_BETWEEN)
    /\ \E w \in Workers : pc[w] = "f_ret" /\ html[w] = "page"

\* C3: once consecutive_failures has reached MAX_CONSECUTIVE_FAILS and the loop
\* has stopped, no further candidate is started, and nothing more is written
\* to the vector store by a candidate started after that point.
C3_NothingProcessedAfterStop ==
    [][stopped =>
        \A d \in DocIds : future[d].state = "pending" => future'[d].state = "pending"]_vars

\* C4: consecutive_failures always equals the length of the run of misses
\* that ends the outcomes observed so far: every non-miss outcome resets it.
C4_CounterIsMissRun == consecutive_failures = missRun

\* C5: at most one worker at a time is inside case_law_store.add_texts.
C5_OneWriterAtATime == Cardinality({w \in Workers : pc[w] = "e_embed"}) <= 1

\* One worker is inside add_texts while another waits for EMBED_LOCK.
C5_Witness ==
    \E w, v \in Workers : pc[w] = "e_embed" /\ pc[v] = "e_lock"

\* C6: no delay update is lost: the delay equals the value obtained by
\* applying the adjustments made so far one at a time, in the order of their
\* stores, starting from SLEEP_BETWEEN.
C6_NoLostUpdate == ADAPTIVE_SLEEP = serial

\* Two workers adjust the delay at the same time: one holds RATE_LOCK between
\* its load and its store, another waits to make its own adjustment, and an
\* earlier adjustment has already moved the delay.
C6_Witness ==
    /\ ADAPTIVE_SLEEP # SLEEP_BETWEEN
    /\ \E w, v \in Workers :
        /\ pc[w] \in {"f_grow_w", "f_decay_w"}
        /\ pc[v] \in {"f_grow", "f_decay"}

\* C7: when enumerate_and_embed finishes, total_docs is the number of
\* candidates with chunks in the vector store and total_chunks the number of
\* chunks written.
C7_TotalsMatchStore ==
    mainpc = "done" =>
        /\ total_docs = Cardinality({e.case_id : e \in case_law})
        /\ total_chunks = Cardinality(case_law)

\* C8: however often the same raw bytes are uploaded, and under whatever
\* filenames, there is one Document row with their content hash and one raw
\* stored copy of the bytes.
C8_OneRowOneRawCopy ==
    \A b \in Blobs :
        /\ Cardinality({d \in db_documents : d.hash = HashOf(b)}) <= 1
        /\ Cardinality({f \in raw_dir : f.data = b /\ f.path[2] \in UploadNames}) <= 1

\* C9: the committed tables hold, for each ingestion, the Document row with
\* all of its Chunk rows, or neither: no Chunk row without its Document and no
\* Document without the chunks of its text, in any state.
C9_DocumentAndChunksTogether ==
    /\ \A c \in db_chunks : \E d \in db_documents : d.id = c.document_id
    /\ \A d \in db_documents :
        Cardinality({c \in db_chunks : c.document_id = d.id}) = ChunkCountOf(d.hash)

\* A transaction has failed after the document row was flushed, while an
\* earlier ingestion is committed.
C9_Witness ==
    /\ ret.status = "error"
    /\ ret.error = "commit failed"
    /\ db_documents # {}

\* C10: the chunk_index values of a persisted Document are 0..n-1 without
\* duplicates, n being the chunk count its ingest call returned.
C10_ChunkIndexesContiguous ==
    \A d \in db_documents :
        LET rows == {c \in db_chunks : c.document_id = d.id}
            n == returned[d.hash]
        IN  /\ {c.chunk_index : c \in rows} = 0..(n - 1)
            /\ Cardinality(rows) = n

\* A document of three chunks has been persisted and its call returned ok.
C10_Witness ==
    /\ ret.status = "ok"
    /\ ret.chunks = 3
    /\ \E d \in db_documents : d.hash = ret.hash /\ returned[d.hash] = 3

\* C11: the vector ids that add_texts generates are pairwise distinct across
\* calls, also calls within one clock second, so no two Chunk rows refer to
\* the same vector entry.
C11_OneVectorEntryPerChunk ==
    \A c1, c2 \in db_chunks : c1.vector_id = c2.vector_id => c1 = c2

\* C12: when the relational transaction of an ingest call fails after the
\* vector-store write, the call returns status "error", the committed tables
\* are exactly those of the moment the call began, and the vector entries the
\* call has written stay in the collection without a Chunk row naming them.
C12_FailedTransactionLeavesOrphans ==
    [][(ipc \in {"i_tx", "i_flushed"} /\ ipc' = "idle" /\ ret'.status # "ok") =>
         /\ ret'.status = "error"
         /\ <<db_documents', db_chunks'>> = call.before
         /\ \A id \in call.written :
               /\ \E e \in case_files' : e.id = id
               /\ ~ \E c \in db_chunks' : c.vector_id = id]_vars

\* A call has returned an error; its vectors are in the collection and no
\* document with its hash is in the relational store.
C12_Witness ==
    /\ ipc = "idle"
    /\ ret.status = "error"
    /\ \E e \in case_files : e.hash = HashOf(ret.blob)
    /\ ~ \E d \in db_documents : d.hash = HashOf(ret.blob)

\* C13: no ingest call ends with an exception raised to its caller: a failure
\* of text extraction or of the embedding provider is returned as a status.
C13_NoExceptionEscapes == ret.status # "raised"

\* C14: an upload whose content type is unsupported and whose name has no
\* supported extension never gets past the routing, whatever its bytes: no
\* call works on it, and the step that answers "ignored" leaves raw storage,
\* the collection and both tables as they were.
C14_IgnoredChangesNothing ==
    /\ [](call.kind = "upload" =>
            \/ call.content_type \in {"text/plain", "application/pdf"}
            \/ call.filename = "z.pdf")
    /\ [](ret.status = "ignored" =>
            ret.reason \notin {"text/plain", "application/pdf"})
    /\ [][(ret'.status = "ignored" /\ ingests' # ingests) =>
            /\ ipc' = "idle"
            /\ UNCHANGED <<raw_dir, case_files, db_documents, db_chunks, tx_documents>>]_vars

\* A zero-byte upload of an unsupported type has been ignored while the
\* stores hold an earlier ingestion.
C14_Witness ==
    /\ ret.status = "ignored"
    /\ ret.blob = "b0"
    /\ ret.reason = "application/octet-stream"
    /\ raw_dir # {}
    /\ db_chunks # {}

C16_TrivialWritesNothing ==
    /\ \A w \in Workers : pc[w] \in {"e_lock", "e_embed"} => words[w] >= 40
    /\ \A d \in DocIds :
        (future[d].state = "done" /\ future[d].status = "trivial") =>
            /\ future[d].chunk_count = 0
            /\ ~ \E e \in case_law : e.case_id = d
    /\ ipc = "idle" /\ ingests = 0 /\ case_files = {}

\* A candidate has ended as trivial while another one's chunks are in the
\* collection.
C16_Witness ==
    /\ \E d \in DocIds : future[d] = Finished("trivial", 0)
    /\ case_law # {}

\* The chunks the Chunker contract names for text t: the slices
\* t[k*(size-overlap) : k*(size-overlap)+size] for k = 0, 1, ... up to and
\* including the first one that reaches the end of t; none for the empty text.
ContractLast(n, size, overlap) ==
    CHOOSE k \in 0..n :
        /\ k * (size - overlap) + size >= n
        /\ \A j \in 0..(k - 1) : j * (size - overlap) + size < n
ContractPairs(n, size, overlap) ==
    IF n = 0 THEN <<>>
    ELSE [k \in 1..(ContractLast(n, size, overlap) + 1) |->
             <<(k - 1) * (size - overlap),
               Min((k - 1) * (size - overlap) + size, n)>>]
ContractChunks(t, size, overlap) ==
    LET pairs == ContractPairs(Len(t), size, overlap)
    IN  [k \in 1..Len(pairs) |-> SubSeq(t, pairs[k][1] + 1, pairs[k][2])]

\* C17: for every text and size > overlap >= 0, text_utils.chunk_text returns
\* exactly the contract's slices: every k-th slice up to the first that
\* reaches the end, nothing after it, nothing for the empty text, the text
\* itself when it is no longer than size.
C17_TextUtilsChunksAsSpecified ==
    "text_utils" \in called =>
        /\ tu_chunks = ContractChunks(arg_text, arg_size, arg_overlap)
        /\ arg_text = <<>> => tu_chunks = <<>>
        /\ (arg_text # <<>> /\ Len(arg_text) <= arg_size) => tu_chunks = <<arg_text>>

\* chunk_text("abcdefghij", 4, 1) has returned abcd, defg, ghij.
C17_Witness ==
    /\ "text_utils" \in called
    /\ arg_text = TextOfLen(10)
    /\ arg_size = 4
    /\ arg_overlap = 1
    /\ tu_chunks = << <<"a", "b", "c", "d">>, <<"d", "e", "f", "g">>, <<"g", "h", "i", "j">> >>

\* C18: the chunks ingestion persists for a document (size 3000, overlap 250)
\* are those the specified chunker, text_utils.chunk_text, produces for its
\* text: none skipped or duplicated, none after the one that reaches the end,
\* none for the empty text.
C18_IngestionChunksAsSpecified ==
    \A d \in db_documents :
        LET n == Min(TextLen(BlobOf(d.hash)), MAX_DOC_LENGTH)
            want == TextUtilsChunkText(n, INGEST_CHUNK_SIZE, INGEST_OVERLAP)
        IN  {<<c.chunk_index, c.slice>> : c \in {r \in db_chunks : r.document_id = d.id}}
                = {<<k - 1, want[k]>> : k \in 1..Len(want)}

\* Joining the chunks again: the first chunk whole, every later chunk
\* without its first `overlap` characters (ch[overlap:])
RECURSIVE Rejoin(_, _)
Rejoin(chunks, overlap) ==
    IF chunks = <<>> THEN <<>>
    ELSE IF Len(chunks) = 1 THEN chunks[1]
    ELSE Rejoin(SubSeq(chunks, 1, Len(chunks) - 1), overlap)
            \o SubSeq(chunks[Len(chunks)], overlap + 1, Len(chunks[Len(chunks)]))

\* C19: for every non-empty text and size > overlap >= 0, the chunks of
\* text_utils.chunk_text and those of the ingestion chunker each join back to
\* exactly the text.
C19_ChunksJoinBackToText ==
    arg_text # <<>> =>
        /\ "text_utils" \in called => Rejoin(tu_chunks, arg_overlap) = arg_text
        /\ "document_ingestion" \in called => Rejoin(di_chunks, arg_overlap) = arg_text

\* Both chunkers have run on a text that needs several overlapping chunks,
\* and the ingestion chunker has returned one chunk more than text_utils.
C19_Witness ==
    /\ called = {"text_utils", "document_ingestion"}
    /\ arg_overlap > 0
    /\ Len(tu_chunks) >= 3
    /\ Len(di_chunks) > Len(tu_chunks)

\* C20 as stated: of two hits of one query with distances 0 <= d1 < d2 the
\* first has the strictly greater score; every score lies in (0, 1]; the score
\* is null exactly when the distance is unavailable.
C20_ScoreStrictlyDecreasing ==
    \A i, j \in 1..Len(out) :
        /\ (out[i].score = None) <=> (out[i].distance = None)
        /\ out[i].score # None => (0 < out[i].score /\ out[i].score <= One)
        /\ (out[i].distance # None /\ out[j].distance # None
                /\ out[i].distance < out[j].distance) =>
              out[i].score > out[j].score

\* C20 amended: the score never increases with the distance (two close
\* distances can get the same score); every score lies in (0, 1]; the score is
\* null exactly when the distance is unavailable.
C20_ScoreNeverIncreasing ==
    \A i, j \in 1..Len(out) :
        /\ (out[i].score = None) <=> (out[i].distance = None)
        /\ out[i].score # None => (0 < out[i].score /\ out[i].score <= One)
        /\ (out[i].distance # None /\ out[j].distance # None
                /\ out[i].distance < out[j].distance) =>
              out[i].score >= out[j].score

\* A query has returned a hit at distance 0 with score 1 and a farther hit
\* with a smaller score.
C20_Witness ==
    /\ Len(out) = NumHits
    /\ out[1].distance = 0 /\ out[1].score = One
    /\ out[2].distance = One /\ out[2].score = One \div 2

\* C21 helpers. The ranks a group holds, and what every group must be whatever
\* the filter test: the two keys, hits of the group's own collection only, at
\* most k of them, taken from the collection's k nearest, nearest first
RequestedK(c) == IF c = "case_files" THEN k_case_files ELSE k_case_law
GroupsOfOwnTopK ==
    /\ DOMAIN hybrid_ret = {"case_files", "case_law"}
    /\ \A c \in Collections :
        LET group == hybrid_ret[c] IN
        /\ Len(group) <= RequestedK(c)
        /\ \A i \in 1..Len(group) :
            /\ group[i].collection = c
            /\ group[i].rank \in 1..Min(RequestedK(c), Len(ranked[c]))
            /\ group[i].metadata = ranked[c][group[i].rank]
        /\ \A i, j \in 1..Len(group) : i < j => group[i].rank < group[j].rank
\* The ranks among a collection's k nearest that a group holds are those
\* passing Keeps (all of them when no filter is in force)
GroupsKeepExactly(Keeps(_)) ==
    \A c \in Collections :
        {hybrid_ret[c][i].rank : i \in 1..Len(hybrid_ret[c])} =
            {r \in 1..Min(RequestedK(c), Len(ranked[c])) :
                 (filters.given /\ Keys(filters.dict) # {}) => Keeps(ranked[c][r])}
EqualsEveryFilter(meta) ==
    \A key \in Keys(filters.dict) : meta[key] = filters.dict[key]
SameTextAsEveryFilter(meta) ==
    \A key \in Keys(filters.dict) :
        (IF meta[key] = Absent THEN "None" ELSE meta[key].repr) = filters.dict[key].repr

\* C21 as stated: hybrid_search returns the two groups case_files and
\* case_law, each holding hits of its own collection only, at most k, nearest
\* first; with filters a group is exactly the subsequence of its top-k hits
\* whose metadata equals every filter value
C21_GroupsFilteredByEquality ==
    hybrid_ret # NoReturn => GroupsOfOwnTopK /\ GroupsKeepExactly(EqualsEveryFilter)

\* C21 amended: the same, with a hit kept exactly when, for every filter key,
\* the text str() gives for the hit's metadata value (None when the key is
\* absent) is the text str() gives for the filter value
C21_GroupsFilteredByText ==
    hybrid_ret # NoReturn => GroupsOfOwnTopK /\ GroupsKeepExactly(SameTextAsEveryFilter)

\* A two-key filter is in force, a collection has more entries than asked
\* for, and a group lost some of its top-k hits and kept others
C21_Witness ==
    /\ hybrid_ret # NoReturn
    /\ Cardinality(Keys(filters.dict)) = 2
    /\ Len(ranked["case_files"]) > k_case_files
    /\ Len(hybrid_ret["case_law"]) = 1
    /\ Len(ranked["case_law"]) = 2
    /\ k_case_law = 2

\* C22: when the embedding provider fails during add_texts the error reaches
\* the caller and the collection is as it was: in the crawl the candidate's
\* outcome is embed_error with chunk count 0, and no entry of the candidate
\* is in the case_law collection
C22_FailedEmbeddingStoresNothing ==
    \A d \in DocIds :
        future[d].status = "embed_error" =>
            /\ future[d].chunk_count = 0
            /\ \A entry \in case_law : entry.case_id # d

\* A candidate ended in embed_error while the collection holds the chunks of
\* another candidate
C22_Witness ==
    \E d \in DocIds :
        /\ future[d].status = "embed_error"
        /\ \E entry \in case_law : entry.case_id # d

Thousandths(n) == (Scale \div 1000) * n
RateLimitStep(w) == pc[w] = "f_grow_w" /\ pc'[w] = "f_ret"
GrowthRule ==
    LET grown == ADAPTIVE_SLEEP + ADAPTIVE_SLEEP \div 2 + Thousandths(200)
    IN  ADAPTIVE_SLEEP' = IF grown <= Thousandths(6000) THEN grown ELSE Thousandths(6000)
FirstThree ==
    /\ ADAPTIVE_SLEEP = Thousandths(800) => ADAPTIVE_SLEEP' = Thousandths(1400)
    /\ ADAPTIVE_SLEEP = Thousandths(1400) => ADAPTIVE_SLEEP' = Thousandths(2300)
    /\ ADAPTIVE_SLEEP = Thousandths(2300) => ADAPTIVE_SLEEP' = Thousandths(3650)

\* C24 as stated: each rate-limit outcome sets the delay to
\* min(old * 1.5 + 0.2, 6.0); from 0.8 three in a row give 1.4, 2.3, 3.65, and
\* the ones after them give 6.0
C24_FourthIsClamped ==
    [][\A w \in Workers :
          RateLimitStep(w) =>
              /\ GrowthRule
              /\ FirstThree
              /\ ADAPTIVE_SLEEP >= Thousandths(3650) => ADAPTIVE_SLEEP' = Thousandths(6000)]_vars

\* C24 amended: the same rule and first three delays; the fourth in a row
\* gives 5.675, which is under the ceiling, and the ones after it give 6.0
C24_FifthIsClamped ==
    [][\A w \in Workers :
          RateLimitStep(w) =>
              /\ GrowthRule
              /\ FirstThree
              /\ ADAPTIVE_SLEEP = Thousandths(3650) => ADAPTIVE_SLEEP' = Thousandths(5675)
              /\ ADAPTIVE_SLEEP >= Thousandths(5675) => ADAPTIVE_SLEEP' = Thousandths(6000)]_vars

\* Five fetches, all rate-limited, brought the delay from 0.8 to the ceiling
C24_Witness ==
    /\ fetches = 5
    /\ \A w \in Workers : pc[w] = "idle"
    /\ serial = Thousandths(6000)
    /\ ADAPTIVE_SLEEP = Thousandths(6000)

\* C27: a candidate whose fetch was answered with a rate limit is fetched
\* again later in the same run
C27_RateLimitedIsFetchedAgain ==
    \A d \in DocIds :
        (\E w \in Workers : cur[w] = d /\ pc[w] \in {"f_grow", "f_grow_w"})
            ~> (\E w \in Workers : cur[w] = d /\ pc[w] = "f_begin")

\* C29: the outcome empty_chunks does not occur: a text that passed the
\* 40-word minimum has at least one chunk, no chunk has more than CHUNK_SIZE
\* words, and the chunks, in order, are the words of the text, each once
C29_NoEmptyChunks ==
    /\ \A d \in DocIds : future[d].status # "empty_chunks"
    /\ \A w \in Workers :
        pc[w] \in {"e_lock", "e_embed"} =>
            LET chunks == AppChunkText(words[w], CHUNK_SIZE) IN
            /\ words[w] >= 40
            /\ Len(chunks) >= 1
            /\ chunks[1][1] = 0
            /\ chunks[Len(chunks)][2] = words[w]
            /\ \A k \in 1..Len(chunks) :
                /\ chunks[k][1] < chunks[k][2]
                /\ chunks[k][2] - chunks[k][1] <= 200
                /\ k < Len(chunks) => chunks[k + 1][1] = chunks[k][2]

\* A text of more than CHUNK_SIZE words passed the minimum and is about to
\* be embedded, after another candidate's text was found too short
C29_Witness ==
    /\ \E w \in Workers : pc[w] = "e_embed" /\ words[w] > CHUNK_SIZE
    /\ \E d \in DocIds : future[d].status = "trivial"

\* C30: an ingest call for bytes whose content hash had a Document row when
\* the call began adds nothing to the case_files collection: the vector-store
\* write of the call has stored no entry
C30_RepeatAddsNoVectors ==
    (ipc = "i_tx" /\ \E d \in call.before[1] : d.hash = call.hash) =>
        call.written = {}

\* C25: after delete_session(s) has returned True the session and all its data
\* are gone: s is not in active_sessions, its session file and the files of
\* its documents are removed, its vector collection holds none of its entries,
\* and get_session(s) returns None
C25_DeletedSessionLeavesNothing ==
    /\ \A s \in SessionIds :
        (sm_ret.op = "delete_session" /\ sm_ret.session_id = s /\ sm_ret.value = TRUE) =>
            /\ active_sessions[s] = NoSession
            /\ s \notin sessions_dir
            /\ \A path \in documents_dir : path[1][1] # s
            /\ \A entry \in session_collections[<<"session", s, "docs">>] : entry.doc_id[1] # s
    /\ \A s \in SessionIds :
        (sm_ret.op = "get_session" /\ sm_ret.session_id = s /\ active_sessions[s] = NoSession) =>
            sm_ret.value = [type |-> "NoneType", repr |-> "None"]

\* C26: create_session on an id that is in active_sessions returns that
\* session's data and leaves them as they were: documents, chat_history,
\* vector_collections, total_analyses and created_at are not reset
C26_CreateSessionKeepsExisting ==
    [][\A s \in SessionIds :
          (active_sessions[s] # NoSession /\ sm_ret'.op = "create_session"
                                          /\ sm_ret'.session_id = s) =>
              /\ active_sessions'[s] = active_sessions[s]
              /\ sm_ret'.value = active_sessions[s]]_vars

\* create_session has just returned a session created at an earlier reading
\* of the clock, which has a document, a vector collection and an analysis
C26_Witness ==
    \E s \in SessionIds :
        /\ sm_ret.op = "create_session" /\ sm_ret.session_id = s
        /\ sm_ret.value = active_sessions[s]
        /\ active_sessions[s].created_at < now
        /\ \E b \in SessionBlobs : active_sessions[s].documents[b] # NoDocument
        /\ Len(active_sessions[s].vector_collections) = 1
        /\ active_sessions[s].total_analyses = 1

\* C28: in every session total_analyses is the number of chat_history entries
\* whose message_type is ai_response
C28_AnalysesCountResponses ==
    \A s \in SessionIds :
        active_sessions[s] # NoSession =>
            active_sessions[s].total_analyses =
                Cardinality({i \in 1..Len(active_sessions[s].chat_history) :
                                active_sessions[s].chat_history[i] = "ai_response"})

\* A session with a document holds a response and a message of another type
C28_Witness ==
    \E s \in SessionIds :
        /\ active_sessions[s] # NoSession
        /\ active_sessions[s].total_analyses = 1
        /\ Len(active_sessions[s].chat_history) = 2
        /\ \E b \in SessionBlobs : active_sessions[s].documents[b] # NoDocument

====
